---- MODULE Spec2Model ----
(***************************************************************************)
(* floki - the development container launcher.                             *)
(*                                                                         *)
(* A model of src/main.rs: main, run_floki_from_args, append_global_config *)
(* and configure_logging.  One invocation of the launcher is one behaviour:*)
(* pc is the position of the single thread in main / run_floki_from_args.  *)
(* The stages that live in other modules of the crate (environment,        *)
(* config, spec, interpret, image) are modelled by what the design         *)
(* document says of them: each either succeeds with a value or fails.      *)
(*                                                                         *)
(* Strings are sequences of symbols: the white space characters " " and    *)
(* NL, the character "&", and words (a maximal run of other characters is  *)
(* kept as one symbol, e.g. "true", "bash", "-c").                         *)
(***************************************************************************)
EXTENDS Integers, Sequences, FiniteSets, TLC

VARIABLES
    args,            \* Cli: subcommand, command, config_file, verbosity, local
    pc,              \* position in main / run_floki_from_args
    logLevel,        \* level installed by configure_logging, 0 = no logger
    env,             \* Option<Environment>, <<>> or <<e>>
    config,          \* Option<FlokiConfig>
    shell_command,   \* first binding of inner_command (main.rs 65 / 79)
    startup,         \* what append_global_config found in $HOME/.floki
    inner_command,   \* second binding of inner_command (main.rs 66 / 80)
    spec,            \* Option<FlokiSpec>
    calls,           \* the calls made to the other stages, in order
    launchActive,    \* inside run_floki_container
    containerExit,   \* exit code of the container, -1 when none exited
    result,          \* Option<Result<(), Error>> seen by main
    output,          \* lines written to stderr / stdout
    exitStatus       \* exit status of the process, -1 while it runs

vars == <<args, pc, logLevel, env, config, shell_command, startup,
          inner_command, spec, calls, launchActive, containerExit, result,
          output, exitStatus>>

-----------------------------------------------------------------------------
(* Bounds *)

MaxVerbosity == 4
MaxScriptLen == 3
MaxExitCode == 2

-----------------------------------------------------------------------------
(* Values *)

NL == "\n"

None == <<>>
Some(x) == <<x>>

Subcommands == {"Pull", "Run", "Completion", "None"}
Shells == {"bash", "sh"}
Images == {"debian:bullseye", "build"}
UserCommands == {"make"}
ExplicitPaths == {"a.yaml"}
DiscoveredPath == "floki.yaml"

Ok == [ok |-> TRUE, stage |-> "-", code |-> 0]
Err(stage, code) == [ok |-> FALSE, stage |-> stage, code |-> code]

\* Cli::from_args: what the parser can hand to main.
CliArgs ==
    { [subcommand |-> s, command |-> c, config_file |-> f, verbosity |-> v,
       local |-> l] :
        s \in Subcommands \ {"Run"}, c \in {None},
        f \in {None} \cup {Some(p) : p \in ExplicitPaths},
        v \in 0..MaxVerbosity, l \in BOOLEAN }
    \cup
    { [subcommand |-> "Run", command |-> Some(c), config_file |-> f,
       verbosity |-> v, local |-> l] :
        c \in UserCommands,
        f \in {None} \cup {Some(p) : p \in ExplicitPaths},
        v \in 0..MaxVerbosity, l \in BOOLEAN }

\* The contents a startup script can have: up to MaxScriptLen symbols.
ScriptAlphabet == {"true", "false", " ", NL}

RECURSIVE SeqsUpTo(_, _)
SeqsUpTo(S, n) ==
    IF n = 0 THEN {<<>>}
    ELSE LET shorter == SeqsUpTo(S, n - 1)
         IN  shorter \cup {Append(s, x) : s \in shorter, x \in S}

Scripts == SeqsUpTo(ScriptAlphabet, MaxScriptLen)

\* The states of $HOME and $HOME/.floki/startup.sh that the function tells
\* apart: HOME unset; no file; a file that cannot be read (its contents never
\* reach the program); a file read.
StartupStates ==
    { [home |-> FALSE, exists |-> FALSE, readable |-> FALSE, contents |-> <<>>] }
    \cup { [home |-> TRUE, exists |-> FALSE, readable |-> FALSE, contents |-> <<>>] }
    \cup { [home |-> TRUE, exists |-> TRUE, readable |-> FALSE, contents |-> <<>>] }
    \cup { [home |-> TRUE, exists |-> TRUE, readable |-> TRUE, contents |-> c] :
             c \in Scripts }

NoStartup == [home |-> FALSE, exists |-> FALSE, readable |-> FALSE, contents |-> <<>>]

-----------------------------------------------------------------------------
(* Strings *)

IsWhite(c) == c \in {" ", NL}

RECURSIVE TrimStart(_)
TrimStart(s) ==
    IF s # <<>> /\ IsWhite(Head(s)) THEN TrimStart(Tail(s)) ELSE s

RECURSIVE TrimEnd(_)
TrimEnd(s) ==
    IF s # <<>> /\ IsWhite(s[Len(s)]) THEN TrimEnd(SubSeq(s, 1, Len(s) - 1)) ELSE s

\* str::trim
Trim(s) == TrimEnd(TrimStart(s))

StartsWith(s, p) == Len(s) >= Len(p) /\ SubSeq(s, 1, Len(p)) = p

IsSuffix(p, s) == Len(s) >= Len(p) /\ SubSeq(s, Len(s) - Len(p) + 1, Len(s)) = p

\* the pieces of s between the occurrences of sep
RECURSIVE Split(_, _)
Split(s, sep) ==
    IF s = <<>> THEN << <<>> >>
    ELSE IF StartsWith(s, sep)
         THEN << <<>> >> \o Split(SubSeq(s, Len(sep) + 1, Len(s)), sep)
         ELSE LET r == Split(Tail(s), sep)
              IN  << <<Head(s)>> \o Head(r) >> \o Tail(r)

-----------------------------------------------------------------------------
(* The functions of main.rs *)

\* " && " of format!("{} && {}", ..) at main.rs 103
AndJoin == <<" ", "&", "&", " ">>

\* append_global_config joining with a newline instead of " && "
append_global_config_newline(command, fs) ==
    IF fs.home /\ fs.exists /\ fs.readable
    THEN Trim(fs.contents) \o <<NL>> \o command
    ELSE command

\* append_global_config without the trim of the contents
append_global_config_untrimmed(command, fs) ==
    IF fs.home /\ fs.exists /\ fs.readable
    THEN fs.contents \o AndJoin \o command
    ELSE command

\* append_global_config (main.rs 88-107) as a function of the command and of
\* what HOME and the file system hold.
append_global_config(command, fs) ==
    IF ~fs.home THEN command
    ELSE IF fs.exists
         THEN IF ~fs.readable THEN command
              ELSE Trim(fs.contents) \o AndJoin \o command
         ELSE command

\* log::LevelFilter as a number: Off 0, Error 1, Warn 2, Info 3, Debug 4, Trace 5
LevelWarn == 2
LevelDebug == 4

\* the match of configure_logging (main.rs 111-121): the level of a verbosity,
\* None for the arm that returns InvalidVerbositySetting
LevelFor(verbosity) ==
    IF verbosity \in 0..3 THEN Some(verbosity + LevelWarn) ELSE None

\* exit status of std::process::exit(1) at main.rs 34
ErrorExitCode == 1
\* exit status of a main that returns Ok(()) (main.rs 37)
SuccessExitCode == 0
\* exit status of a main that returns Err (main.rs 28, the ? operator)
TerminationFailure == 1

\* the match on the result of run_floki_from_args (main.rs 30-37)
ExitStatusOf(r) == IF r.ok THEN SuccessExitCode ELSE ErrorExitCode

\* a main that exits without logging the error
DiagnosticsSilent(r) == <<>>

\* error!("A problem occurred: {}", e) at main.rs 33: the lines main logs for
\* a result
DiagnosticsOf(r) ==
    IF r.ok THEN <<>>
    ELSE << [kind |-> "error", stage |-> r.stage, code |-> r.code] >>

\* config.shell.inner_shell(): the shell to run in the container
inner_shell(cfg) == <<cfg.shell>>

\* interpret::command_in_shell: the command wrapped in the shell's syntax
command_in_shell(shell, command) == shell \o <<" ", "-c", " ">> \o command

\* the inner command built on a fixed shell instead of the configured one
InnerCommandDefaultShell(a, cfg) ==
    IF a.subcommand = "Run"
    THEN command_in_shell(<<"sh">>, a.command)
    ELSE <<"sh">>

\* the first binding of inner_command (main.rs 65 for Run, 79 for None)
InnerCommandFor(a, cfg) ==
    IF a.subcommand = "Run"
    THEN command_in_shell(inner_shell(cfg), a.command)
    ELSE inner_shell(cfg)

\* a Pull arm that falls into the Run arm
AfterConfigAlwaysRuns(a) == "inner_command"

\* the pc after a successful FlokiConfig::from_file (main.rs 57-58, 64-65, 78-79)
AfterConfig(a) == IF a.subcommand = "Pull" THEN "image_name" ELSE "inner_command"

\* the match on args.subcommand (main.rs 53-83): where each arm starts
Dispatch(a) == IF a.subcommand = "Completion" THEN "completion" ELSE "gather"

-----------------------------------------------------------------------------
(* The other stages *)

\* Environment::gather: the explicit path when one is given, the path found
\* by the upward search otherwise
GatheredEnv(config_file) ==
    [config_file |-> IF config_file = None THEN DiscoveredPath ELSE config_file[1]]

\* FlokiSpec::from: the launch specification of a config and an environment
FlokiSpecFrom(cfg, e) == [config |-> cfg, env |-> e]

\* run_floki_container: Result<(), Error> for a container that exited with c
RunResult(c) == IF c = 0 THEN Ok ELSE Err("run_floki_container", c)

Call(fn, in, out, ok) == [fn |-> fn, in |-> in, out |-> out, ok |-> ok]

\* the calls of a stage
CallsOf(fn) == SelectSeq(calls, LAMBDA c : c.fn = fn)
Launches == Len(CallsOf("run_floki_container"))

-----------------------------------------------------------------------------
(* The shell that runs the inner command in the container *)

Words(s) == SelectSeq(s, LAMBDA c : c # " ")

\* a line is an and-list: commands joined by &&
AndList(line) == Split(line, <<"&", "&">>)

SyntaxError(line) ==
    LET segs == AndList(line)
    IN  \E i \in 1..Len(segs) :
            \/ Words(segs[i]) = <<>>
            \/ \E j \in 1..Len(segs[i]) : segs[i][j] = "&"

\* status of a simple command: false fails, everything else succeeds
CmdStatus(w) == IF Head(w) = "false" THEN 1 ELSE 0

\* the commands of an and-list run left to right until one fails; ran records
\* that the inner command (a command whose name is a shell) was executed
RECURSIVE RunAndList(_, _)
RunAndList(segs, st) ==
    IF segs = <<>> THEN st
    ELSE LET w == Words(Head(segs))
             st1 == [status |-> CmdStatus(w),
                     ran |-> st.ran \/ Head(w) \in Shells,
                     abort |-> FALSE]
         IN  IF st1.status # 0 THEN st1 ELSE RunAndList(Tail(segs), st1)

\* the lines run one after the other whatever their status; a syntax error
\* ends the shell with status 2
RECURSIVE RunLines(_, _)
RunLines(lines, st) ==
    IF lines = <<>> \/ st.abort THEN st
    ELSE IF Words(Head(lines)) = <<>> THEN RunLines(Tail(lines), st)
    ELSE IF SyntaxError(Head(lines))
         THEN [status |-> 2, ran |-> st.ran, abort |-> TRUE]
         ELSE RunLines(Tail(lines), RunAndList(AndList(Head(lines)), st))

ShellExec(text) ==
    RunLines(Split(text, <<NL>>), [status |-> 0, ran |-> FALSE, abort |-> FALSE])

\* the inner command is executed when the shell runs text
InnerRuns(text) == ShellExec(text).ran

\* exit status of the startup script run on its own
ScriptStatus(contents) == ShellExec(contents).status

-----------------------------------------------------------------------------
(* The program *)

Line(kind, stage, code) == [kind |-> kind, stage |-> stage, code |-> code]

\* FlokiSpec::from whose error is dropped instead of returned
AfterSpecIgnoringErr(ok) == "launch"

\* the ? operator on the result of FlokiSpec::from (main.rs 67, 81): the
\* container is run only with a spec
AfterSpec(ok) == IF ok THEN "launch" ELSE "main_match"

\* from_file reading the default file name whatever gather returned
ConfigFileDefault(a, e) == DiscoveredPath

\* &env.config_file at main.rs 57, 64, 78: the file FlokiConfig::from_file reads
ConfigFileToRead(a, e) == e.config_file

\* what debug! and warn! of main.rs 42-46 write under the installed level
EntryLines(a, level) ==
    (IF level >= LevelDebug THEN <<Line("debug", "args", 0)>> ELSE <<>>)
    \o (IF a.local /\ level >= LevelWarn THEN <<Line("warn", "local", 0)>> ELSE <<>>)

Init ==
    /\ args \in CliArgs
    /\ pc = "main"
    /\ logLevel = 0
    /\ env = None
    /\ config = None
    /\ shell_command = <<>>
    /\ startup = NoStartup
    /\ inner_command = <<>>
    /\ spec = None
    /\ calls = <<>>
    /\ launchActive = FALSE
    /\ containerExit = -1
    /\ result = None
    /\ output = <<>>
    /\ exitStatus = -1

\* configure_logging(args.verbosity)? at main.rs 28: the level is installed,
\* or an invalid verbosity or a failing TermLogger::init makes main return Err
ConfigureLogging ==
    /\ pc = "main"
    /\ \E initOk \in BOOLEAN :
        IF LevelFor(args.verbosity) # None /\ initOk
        THEN /\ logLevel' = LevelFor(args.verbosity)[1]
             /\ pc' = "run_floki_from_args"
             /\ result' = result
        ELSE /\ logLevel' = logLevel
             /\ pc' = "main_err"
             /\ result' = Some(Err("configure_logging", args.verbosity))
    /\ UNCHANGED <<args, env, config, shell_command, startup, inner_command,
                   spec, calls, launchActive, containerExit, output, exitStatus>>

\* main returns the Err of configure_logging: the runtime writes it to stderr
\* and the process ends with a failure status
MainReturnsErr ==
    /\ pc = "main_err"
    /\ output' = Append(output, Line("runtime_error", result[1].stage, result[1].code))
    /\ exitStatus' = TerminationFailure
    /\ pc' = "exited"
    /\ UNCHANGED <<args, logLevel, env, config, shell_command, startup,
                   inner_command, spec, calls, launchActive, containerExit, result>>

\* run_floki_from_args up to the match on the subcommand (main.rs 41-53)
EnterRunFlokiFromArgs ==
    /\ pc = "run_floki_from_args"
    /\ output' = output \o EntryLines(args, logLevel)
    /\ pc' = Dispatch(args)
    /\ UNCHANGED <<args, logLevel, env, config, shell_command, startup,
                   inner_command, spec, calls, launchActive, containerExit,
                   result, exitStatus>>

\* Some(Subcommand::Completion) (main.rs 70-73)
Completion ==
    /\ pc = "completion"
    /\ output' = Append(output, Line("completions", "stdout", 0))
    /\ result' = Some(Ok)
    /\ pc' = "main_match"
    /\ UNCHANGED <<args, logLevel, env, config, shell_command, startup,
                   inner_command, spec, calls, launchActive, containerExit,
                   exitStatus>>

\* Environment::gather(&args.config_file)? (main.rs 56, 63, 77)
Gather ==
    /\ pc = "gather"
    /\ \E ok \in BOOLEAN :
        /\ calls' = Append(calls, Call("gather", args.config_file,
                                       GatheredEnv(args.config_file), ok))
        /\ IF ok
           THEN /\ env' = Some(GatheredEnv(args.config_file))
                /\ pc' = "from_file"
                /\ result' = result
           ELSE /\ env' = env
                /\ pc' = "main_match"
                /\ result' = Some(Err("gather", 0))
    /\ UNCHANGED <<args, logLevel, config, shell_command, startup, inner_command,
                   spec, launchActive, containerExit, output, exitStatus>>

\* FlokiConfig::from_file(&env.config_file)? (main.rs 57, 64, 78)
FromFile ==
    /\ pc = "from_file"
    /\ \E ok \in BOOLEAN, sh \in Shells, im \in Images :
        LET path == ConfigFileToRead(args, env[1])
            cfg == [shell |-> sh, image |-> im, file |-> path]
        IN  /\ calls' = Append(calls, Call("from_file", path, cfg, ok))
            /\ IF ok
               THEN /\ config' = Some(cfg)
                    /\ pc' = AfterConfig(args)
                    /\ result' = result
               ELSE /\ config' = config
                    /\ pc' = "main_match"
                    /\ result' = Some(Err("from_file", 0))
    /\ UNCHANGED <<args, logLevel, env, shell_command, startup, inner_command,
                   spec, launchActive, containerExit, output, exitStatus>>

\* config.image.name()? of the Pull arm (main.rs 58)
ImageName ==
    /\ pc = "image_name"
    /\ \E ok \in BOOLEAN :
        /\ calls' = Append(calls, Call("image_name", config[1], config[1].image, ok))
        /\ IF ok
           THEN /\ pc' = "pull_image"
                /\ result' = result
           ELSE /\ pc' = "main_match"
                /\ result' = Some(Err("image_name", 0))
    /\ UNCHANGED <<args, logLevel, env, config, shell_command, startup,
                   inner_command, spec, launchActive, containerExit, output,
                   exitStatus>>

\* image::pull_image(..), the value of the Pull arm (main.rs 58)
PullImage ==
    /\ pc = "pull_image"
    /\ \E ok \in BOOLEAN :
        /\ calls' = Append(calls, Call("pull_image", config[1].image, 0, ok))
        /\ result' = Some(IF ok THEN Ok ELSE Err("pull_image", 0))
    /\ pc' = "main_match"
    /\ UNCHANGED <<args, logLevel, env, config, shell_command, startup,
                   inner_command, spec, launchActive, containerExit, output,
                   exitStatus>>

\* let inner_command = .. (main.rs 65, 79)
InnerCommand ==
    /\ pc = "inner_command"
    /\ shell_command' = InnerCommandFor(args, config[1])
    /\ pc' = "append_global_config"
    /\ UNCHANGED <<args, logLevel, env, config, startup, inner_command, spec,
                   calls, launchActive, containerExit, result, output, exitStatus>>

\* let inner_command = append_global_config(..) (main.rs 66, 80)
AppendGlobalConfig ==
    /\ pc = "append_global_config"
    /\ \E fs \in StartupStates :
        /\ startup' = fs
        /\ inner_command' = append_global_config(shell_command, fs)
        /\ calls' = Append(calls, Call("append_global_config", shell_command, fs,
                                       TRUE))
    /\ pc' = "spec_from"
    /\ UNCHANGED <<args, logLevel, env, config, shell_command, spec,
                   launchActive, containerExit, result, output, exitStatus>>

\* spec::FlokiSpec::from(config, env)?, the first argument of
\* run_floki_container (main.rs 67, 81)
SpecFrom ==
    /\ pc = "spec_from"
    /\ \E ok \in BOOLEAN :
        /\ calls' = Append(calls, Call("FlokiSpec::from",
                                       [config |-> config[1], env |-> env[1]],
                                       FlokiSpecFrom(config[1], env[1]), ok))
        /\ spec' = IF ok THEN Some(FlokiSpecFrom(config[1], env[1])) ELSE spec
        /\ result' = IF ok THEN result ELSE Some(Err("FlokiSpec::from", 0))
        /\ pc' = AfterSpec(ok)
    /\ UNCHANGED <<args, logLevel, env, config, shell_command, startup,
                   inner_command, launchActive, containerExit, output, exitStatus>>

\* a launch that does not wait for the container: run_floki_from_args returns
\* Ok while the launch is still active
LaunchDetached ==
    /\ pc = "launch"
    /\ calls' = Append(calls, Call("run_floki_container",
                                   [spec |-> spec, command |-> inner_command],
                                   0, TRUE))
    /\ launchActive' = TRUE
    /\ result' = Some(Ok)
    /\ pc' = "main_match"
    /\ UNCHANGED <<args, logLevel, env, config, shell_command, startup,
                   inner_command, spec, containerExit, output, exitStatus>>

\* interpret::run_floki_container(&spec, &inner_command) is entered
\* (main.rs 67, 81)
Launch ==
    /\ pc = "launch"
    /\ calls' = Append(calls, Call("run_floki_container",
                                   [spec |-> spec, command |-> inner_command],
                                   0, TRUE))
    /\ launchActive' = TRUE
    /\ pc' = "running"
    /\ UNCHANGED <<args, logLevel, env, config, shell_command, startup,
                   inner_command, spec, containerExit, result, output, exitStatus>>

\* the container exits with code c and run_floki_container returns
ContainerExits ==
    /\ pc = "running"
    /\ \E c \in 0..MaxExitCode :
        /\ containerExit' = c
        /\ result' = Some(RunResult(c))
    /\ launchActive' = FALSE
    /\ pc' = "main_match"
    /\ UNCHANGED <<args, logLevel, env, config, shell_command, startup,
                   inner_command, spec, calls, output, exitStatus>>

\* the image cannot be resolved or the runtime cannot start the container:
\* run_floki_container returns Err and no container has exited
LaunchFails ==
    /\ pc = "running"
    /\ result' = Some(Err("run_floki_container", -1))
    /\ launchActive' = FALSE
    /\ pc' = "main_match"
    /\ UNCHANGED <<args, logLevel, env, config, shell_command, startup,
                   inner_command, spec, calls, containerExit, output, exitStatus>>

\* the match of main on the result of run_floki_from_args (main.rs 30-37)
MainMatch ==
    /\ pc = "main_match"
    /\ output' = output \o DiagnosticsOf(result[1])
    /\ exitStatus' = ExitStatusOf(result[1])
    /\ pc' = "exited"
    /\ UNCHANGED <<args, logLevel, env, config, shell_command, startup,
                   inner_command, spec, calls, launchActive, containerExit, result>>

Next ==
    \/ ConfigureLogging
    \/ MainReturnsErr
    \/ EnterRunFlokiFromArgs
    \/ Completion
    \/ Gather
    \/ FromFile
    \/ ImageName
    \/ PullImage
    \/ InnerCommand
    \/ AppendGlobalConfig
    \/ SpecFrom
    \/ Launch
    \/ ContainerExits
    \/ LaunchFails
    \/ MainMatch

Spec == Init /\ [][Next]_vars

-----------------------------------------------------------------------------
(* Properties *)

Exited == pc = "exited"
Launching == args.subcommand \in {"Run", "None"}
StageFailed(fn) == \E i \in 1..Len(calls) : calls[i].fn = fn /\ ~calls[i].ok
StageOk(fn) == \E i \in 1..Len(calls) : calls[i].fn = fn /\ calls[i].ok
ResolutionFailed ==
    StageFailed("gather") \/ StageFailed("from_file") \/ StageFailed("FlokiSpec::from")
StartupRead == startup.home /\ startup.exists /\ startup.readable
Diagnostics == SelectSeq(output, LAMBDA l : l.kind \in {"error", "runtime_error"})

\* C1: in a Run or default invocation, once Environment::gather,
\* FlokiConfig::from_file or FlokiSpec::from has failed, run_floki_container
\* has not been and is not invoked (no launch is recorded or active, and the
\* only step left is main's exit), and the exit status, once set, is not 0.
C1_FailureAbortsBeforeLaunch ==
    (Launching /\ ResolutionFailed) =>
        /\ Launches = 0
        /\ ~launchActive
        /\ containerExit = -1
        /\ pc \in {"main_match", "exited"}
        /\ (Exited => exitStatus # 0)

C1_Witness ==
    /\ Exited
    /\ args.subcommand = "Run"
    /\ StageOk("gather") /\ StageOk("from_file") /\ StageFailed("FlokiSpec::from")
    /\ Launches = 0
    /\ exitStatus = 1

\* C2: when a container was launched and exited with code c, the exit status
\* of the launcher is c.
C2_ExitStatusIsContainerExit ==
    (Exited /\ containerExit # -1) => exitStatus = containerExit

\* C3: the exit status of a failure of gather, from_file or FlokiSpec::from is
\* never the exit status of a run whose container was launched and exited.
C3_ConfigFailureCodeIsReserved ==
    (Exited /\ containerExit # -1) =>
        exitStatus \notin { ExitStatusOf(Err(s, 0)) :
                             s \in {"gather", "from_file", "FlokiSpec::from"} }

C5_PullNeverRuns ==
    args.subcommand = "Pull" =>
        /\ CallsOf("run_floki_container") = <<>>
        /\ CallsOf("FlokiSpec::from") = <<>>
        /\ CallsOf("append_global_config") = <<>>
        /\ ~launchActive /\ containerExit = -1
        /\ startup = NoStartup
        /\ \A i \in 1..Len(calls) :
            calls[i].fn = "pull_image" =>
                /\ i = 4 /\ Len(calls) = 4
                /\ calls[1].fn = "gather" /\ calls[1].ok
                /\ calls[2].fn = "from_file" /\ calls[2].ok
                /\ calls[2].in = calls[1].out.config_file
                /\ calls[3].fn = "image_name" /\ calls[3].ok
                /\ calls[3].in = calls[2].out
                /\ calls[4].in = calls[2].out.image

C5_Witness ==
    /\ Exited
    /\ args.subcommand = "Pull"
    /\ StageOk("pull_image")
    /\ exitStatus = 0

\* C6: run_floki_container is entered at most once per invocation, never for
\* Pull or Completion, and exactly once when the subcommand is Run or absent
\* and gather, from_file and FlokiSpec::from all succeeded; while the launch
\* is active the process has no exit status, and it has none before the
\* launch returned.
C6_LaunchOnceAndBlocking ==
    /\ Launches <= 1
    /\ (~Launching => Launches = 0)
    /\ (StageOk("FlokiSpec::from") =>
            \/ pc = "launch" /\ Launches = 0
            \/ Launches = 1)
    /\ ((Exited /\ Launching /\ StageOk("gather") /\ StageOk("from_file")
            /\ StageOk("FlokiSpec::from")) => Launches = 1)
    /\ (Launches = 1 => StageOk("FlokiSpec::from"))
    /\ (launchActive => (pc = "running" /\ exitStatus = -1))
    /\ (exitStatus # -1 => ~launchActive)

C6_Witness ==
    /\ Exited
    /\ args.subcommand = "None"
    /\ Launches = 1
    /\ containerExit = 0
    /\ ~launchActive

\* C7: a run that ends with an error (of configure_logging or of any stage of
\* run_floki_from_args) has written exactly one diagnostic line, which names
\* the failing stage and its reason, at the step that sets a non-zero exit
\* status; a run that ends without error has written none and exits 0; no
\* diagnostic is written before the exit.
C7_OneDiagnosticPerError ==
    /\ (~Exited => Diagnostics = <<>>)
    /\ Exited =>
        /\ result # None
        /\ IF result[1].ok
           THEN Diagnostics = <<>> /\ exitStatus = 0
           ELSE /\ Len(Diagnostics) = 1
                /\ Diagnostics[1].stage = result[1].stage
                /\ Diagnostics[1].code = result[1].code
                /\ exitStatus # 0 /\ exitStatus # -1

C7_Witness ==
    /\ Exited
    /\ args.subcommand = "Pull"
    /\ StageFailed("pull_image")
    /\ Len(Diagnostics) = 1
    /\ Diagnostics[1].stage = "pull_image"
    /\ exitStatus = 1

\* the inner command main.rs builds before the startup script is applied, from
\* the config inside the spec the container was launched with
WrappedCommand(call) ==
    IF args.subcommand = "Run"
    THEN command_in_shell(inner_shell(call.in.spec[1].config), args.command)
    ELSE inner_shell(call.in.spec[1].config)

\* C8 (as stated): the command given to run_floki_container is
\* command_in_shell(config.shell.inner_shell(), command) for Run and
\* config.shell.inner_shell() when no subcommand is given, for the config the
\* spec was resolved from.
C8_CommandIsWrappedCommand ==
    \A i \in 1..Len(calls) :
        calls[i].fn = "run_floki_container" =>
            calls[i].in.command = WrappedCommand(calls[i])

\* C8 (amended): the command given to run_floki_container ends with the
\* wrapped command (command_in_shell(inner_shell, command) for Run,
\* inner_shell when no subcommand is given) of the config the spec was
\* resolved from; it is exactly that command when no startup script was read,
\* and the trimmed startup script, " && " and that command when one was.
C8_CommandEndsWithWrappedCommand ==
    \A i \in 1..Len(calls) :
        calls[i].fn = "run_floki_container" =>
            /\ calls[i].in.spec = spec /\ spec # None
            /\ spec[1].config = config[1]
            /\ spec[1].config.shell \in Shells
            /\ IsSuffix(WrappedCommand(calls[i]), calls[i].in.command)
            /\ IF StartupRead
               THEN calls[i].in.command =
                        Trim(startup.contents) \o <<" ", "&", "&", " ">>
                            \o WrappedCommand(calls[i])
               ELSE calls[i].in.command = WrappedCommand(calls[i])

C8_Witness ==
    /\ pc = "running"
    /\ args.subcommand = "Run"
    /\ StartupRead
    /\ startup.contents = <<"true", NL>>
    /\ config[1].shell = "bash"
    /\ inner_command = <<"true", " ", "&", "&", " ", "bash", " ", "-c", " ", "make">>

\* C9: the stages are called in the order gather, from_file,
\* FlokiSpec::from, run_floki_container, each at most once and each only after
\* the one before it succeeded: from_file reads the config file of the
\* gathered environment, FlokiSpec::from gets the config from_file returned
\* and the environment gather returned, and run_floki_container gets the spec
\* FlokiSpec::from returned; a failed call is the last call.
C9_PipelineOrder ==
    /\ \A f \in {"gather", "from_file", "FlokiSpec::from", "run_floki_container"} :
            Len(CallsOf(f)) <= 1
    /\ \A i \in 1..Len(calls) :
        /\ (i < Len(calls) => calls[i].ok)
        /\ (calls[i].fn = "gather" => i = 1 /\ calls[i].in = args.config_file)
        /\ (calls[i].fn = "from_file" =>
                /\ i = 2
                /\ calls[1].fn = "gather"
                /\ calls[i].in = calls[1].out.config_file)
        /\ (calls[i].fn = "FlokiSpec::from" =>
                /\ i > 2
                /\ calls[1].fn = "gather"
                /\ calls[2].fn = "from_file"
                /\ calls[i].in = [config |-> calls[2].out, env |-> calls[1].out])
        /\ (calls[i].fn = "run_floki_container" =>
                /\ i > 1
                /\ calls[i - 1].fn = "FlokiSpec::from"
                /\ calls[i].in.spec = Some(calls[i - 1].out))

C9_Witness ==
    /\ Exited
    /\ args.subcommand = "Run"
    /\ args.config_file = Some("a.yaml")
    /\ Len(calls) = 5
    /\ calls[2].fn = "from_file" /\ calls[2].in = "a.yaml"
    /\ calls[5].fn = "run_floki_container"
    /\ containerExit = 0

\* C10: append_global_config never fails; it returns the command unchanged
\* when HOME is unset, when the startup script does not exist or when it
\* cannot be read, and the trimmed contents, " && " and the command when the
\* script was read; the command is always a suffix of the result.
C10_AppendGlobalConfigTotal ==
    pc \in {"spec_from", "launch", "running"} =>
        /\ result = None
        /\ calls[3].fn = "append_global_config" /\ calls[3].ok
        /\ calls[3].in = shell_command /\ calls[3].out = startup
        /\ IsSuffix(shell_command, inner_command)
        /\ IF startup.home /\ startup.exists /\ startup.readable
           THEN inner_command =
                    Trim(startup.contents) \o <<" ", "&", "&", " ">> \o shell_command
           ELSE inner_command = shell_command

C10_Witness ==
    /\ pc = "spec_from"
    /\ startup.home /\ startup.exists /\ ~startup.readable
    /\ shell_command = <<"sh">>
    /\ inner_command = <<"sh">>

C10_WitnessRead ==
    /\ pc = "spec_from"
    /\ startup = [home |-> TRUE, exists |-> TRUE, readable |-> TRUE,
                  contents |-> <<" ", "false", NL>>]
    /\ inner_command = <<"false", " ", "&", "&", " ", "sh">>

====
